---------------------------- MODULE Spec2Model ----------------------------
(***************************************************************************)
(* A model of src/benchmark.py: the Ollama benchmarking script.  main()    *)
(* lists the installed models, drops the skipped ones, sends every prompt  *)
(* to every remaining model through run_benchmark (streaming when verbose, *)
(* one blocking call otherwise), validates each reply into an              *)
(* OllamaResponse, and finally sums each model's records in average_stats. *)
(* The inference server is the environment: what ollama.list() and         *)
(* ollama.chat() return is chosen nondeterministically from small sets.    *)
(* An uncaught Python exception ends the run in pc = "error".              *)
(***************************************************************************)
EXTENDS Integers, Sequences, FiniteSets, TLC

VARIABLES
    verbose,        \* args.verbose
    skip_models,    \* args.skip_models (only membership and emptiness are used)
    prompts,        \* args.prompts
    installed,      \* the names ollama.list() returns, in order
    pc,             \* position of main(): "start", "loop", "chat", "stream",
                    \* "append", "avg", "done", "error"
    err,            \* the exception that ended the run, "" while none
    model_names,    \* result of get_benchmark_models
    mi,             \* index of the outer loop (for model_name in model_names)
    pj,             \* index of the inner loop (for prompt in prompts)
    responses,      \* the current model's list `responses`
    benchKeys,      \* keys of the dict `benchmarks`, in insertion order
    benchmarks,     \* the dict `benchmarks`: key -> list of responses
    ai,             \* index of the loop over benchmarks.items()
    last_element,   \* run_benchmark's local last_element
    response,       \* what run_benchmark returned to main
    chunks,         \* the chunks the current stream has yielded so far
    inflight,       \* number of ollama.chat calls that have not returned
    out,            \* console output of the current loop iteration
    res,            \* the synthetic record of the latest average_stats call
    requests,       \* history: every ollama.chat call issued, in order
    replies,        \* history: what run_benchmark returned for each request
    averaged        \* history: the argument of every average_stats call

vars == << verbose, skip_models, prompts, installed, pc, err, model_names, mi,
           pj, responses, benchKeys, benchmarks, ai, last_element, response,
           chunks, inflight, out, res, requests, replies, averaged >>

---------------------------------------------------------------------------
(* Bounds of the model.                                                    *)

MaxModels == 2      \* longest list ollama.list() returns
MaxPrompts == 2     \* longest prompt list
MaxChunks == 2      \* longest stream
MaxCalls == 4       \* most (model, prompt) pairs of a run

(* Names the environment draws from. *)
Models == {"m1", "m2"}
SkipNames == {"m1", "m3"}
PromptTexts == {"p1", "p2"}

SeqsUpTo(S, n) == UNION { [1..k -> S] : k \in 0..n }

RECURSIVE SumSeq(_)
SumSeq(s) == IF s = << >> THEN 0 ELSE Head(s) + SumSeq(Tail(s))

Last(s) == s[Len(s)]

---------------------------------------------------------------------------
(* Python values.                                                          *)

\* Python's None (run_benchmark's "no result", and the initial last_element).
None == [none |-> TRUE]

\* The default of the field prompt_eval_count, the "not provided" sentinel.
MissingCount == -1

\* The keys of a complete chat payload.
AllKeys == {"model", "created_at", "message", "done", "total_duration",
            "load_duration", "prompt_eval_count", "prompt_eval_duration",
            "eval_count", "eval_duration"}

\* The fields of OllamaResponse that have no default.
RequiredKeys == AllKeys \ {"load_duration", "prompt_eval_count"}

\* A payload (a Python mapping) is the set `has` of the keys it holds and their
\* values; the value of a key that is not in `has` is never read.
Payload(has, content, td, ld, pec, ped, ec, ed) ==
    [has |-> has, model |-> "", message |-> [role |-> "assistant", content |-> content],
     done |-> TRUE, total_duration |-> td, load_duration |-> ld,
     prompt_eval_count |-> pec, prompt_eval_duration |-> ped,
     eval_count |-> ec, eval_duration |-> ed]

\* nanosec_to_sec divides by this.
NsPerSec == 1000000000

\* The durations of the payloads below are tenths of a second, in nanoseconds.
Tick == NsPerSec \div 10

P_Full == Payload(AllKeys, "a", 4 * Tick, 1 * Tick, 1, 1 * Tick, 2, 1 * Tick)
P_Neg == Payload(AllKeys \ {"load_duration"}, "", 7 * Tick, 0, -2, 2 * Tick, 1, 3 * Tick)
P_NoCount == Payload(AllKeys \ {"prompt_eval_count"}, "b", 3 * Tick, 1 * Tick, 0, 0, 1, 2 * Tick)
P_Sentinel == Payload(AllKeys, "b", 3 * Tick, 1 * Tick, MissingCount, 1 * Tick, 1, 0)
P_Invalid == Payload(AllKeys \ {"eval_count"}, "a", 1 * Tick, 1 * Tick, 1, 1 * Tick, 0, 1 * Tick)
P_Empty == Payload({}, "", 0, 0, 0, 0, 0, 0)
\* A partial chunk of a stream: text, no timing or token metadata.
P_Part == [Payload({"model", "created_at", "message", "done"}, "c", 0, 0, 0, 0, 0, 0)
             EXCEPT !.done = FALSE]

\* What a non-streaming ollama.chat may return.
Payloads == {P_Full, P_Neg, P_NoCount, P_Sentinel, P_Invalid, P_Empty}
\* What a stream may yield (P_Part already is a chunk that fails validation
\* when it comes last).
Chunks == (Payloads \ {P_Invalid}) \cup {P_Part}

\* The server names the model it ran in its payload.
From(p, m) == IF "model" \in p.has THEN [p EXCEPT !.model = m] ELSE p

\* Python truthiness of last_element: None and the empty mapping are falsy.
Falsy(x) == x = None \/ x.has = {}

---------------------------------------------------------------------------
(* OllamaResponse and its validation.                                      *)

\* A validator that lets the sentinel through.
validate_prompt_eval_count_Keep(value) == value

\* @field_validator("prompt_eval_count")
validate_prompt_eval_count(value) == IF value = MissingCount THEN 0 ELSE value

\* The validator prints its warning.
Warns(value) == value = MissingCount

\* A field declared with the default 0 instead of the sentinel.
RawCount_DefaultZero(p) ==
    IF "prompt_eval_count" \in p.has THEN p.prompt_eval_count ELSE 0

\* The value pydantic hands to the validator: the payload's, or the default.
RawCount(p) ==
    IF "prompt_eval_count" \in p.has THEN p.prompt_eval_count ELSE MissingCount

\* model_validate raises ValidationError when a required field is missing.
SchemaOK(p) == RequiredKeys \subseteq p.has

\* The OllamaResponse that model_validate builds from a payload.
model_validate(p) ==
    [model |-> p.model, message |-> p.message, done |-> p.done,
     total_duration |-> p.total_duration,
     load_duration |-> IF "load_duration" \in p.has THEN p.load_duration ELSE 0,
     prompt_eval_count |-> validate_prompt_eval_count(RawCount(p)),
     prompt_eval_duration |-> p.prompt_eval_duration,
     eval_count |-> p.eval_count, eval_duration |-> p.eval_duration]

---------------------------------------------------------------------------
(* inference_stats.                                                        *)

\* The three divisions of inference_stats; a zero divisor raises
\* ZeroDivisionError before anything is printed.
DivisionError(r) ==
    \/ r.prompt_eval_duration = 0
    \/ r.eval_duration = 0
    \/ r.prompt_eval_duration + r.eval_duration = 0

\* Python's float quotients, computed exactly: a quotient is the fraction
\* num / den in lowest terms with den > 0.
Abs(x) == IF x < 0 THEN -x ELSE x

RECURSIVE Gcd(_, _)
Gcd(a, b) == IF b = 0 THEN a ELSE Gcd(b, a % b)

Quotient(n, d) ==
    LET g == Gcd(Abs(n), Abs(d))
        s == IF d < 0 THEN -1 ELSE 1
    IN  [num |-> s * (n \div g), den |-> s * (d \div g)]

nanosec_to_sec(nanosec) == Quotient(nanosec, NsPerSec)

\* count / seconds, seconds being a quotient other than 0.
PerSecond(count, seconds) == Quotient(count * seconds.den, seconds.num)

prompt_ts(r) ==
    PerSecond(r.prompt_eval_count, nanosec_to_sec(r.prompt_eval_duration))

response_ts(r) == PerSecond(r.eval_count, nanosec_to_sec(r.eval_duration))

\* A combined rate computed as the mean of the two rates.
total_ts_MeanOfRates(r) ==
    LET a == prompt_ts(r)
        b == response_ts(r)
    IN  Quotient(a.num * b.den + b.num * a.den, 2 * a.den * b.den)

total_ts(r) ==
    PerSecond(r.prompt_eval_count + r.eval_count,
              nanosec_to_sec(r.prompt_eval_duration + r.eval_duration))

---------------------------------------------------------------------------
(* get_benchmark_models.                                                   *)

\* A filter that is applied only to a skip-list of two or more names.
get_benchmark_models_Many(names, skip) ==
    IF Cardinality(skip) > 1
      THEN SelectSeq(names, LAMBDA m : m \notin skip)
      ELSE names

get_benchmark_models(names, skip) ==
    IF Cardinality(skip) > 0
      THEN SelectSeq(names, LAMBDA m : m \notin skip)
      ELSE names

---------------------------------------------------------------------------
(* average_stats.                                                          *)

Field(rs, f) == [i \in 1..Len(rs) |-> rs[i][f]]

RunsText(n) == "Average stats across " \o ToString(n) \o " runs"

\* A record of means where the code builds a record of sums.
AverageRecord_Mean(rs) ==
    [model |-> rs[1].model,
     message |-> [role |-> "system", content |-> RunsText(Len(rs))],
     done |-> TRUE,
     total_duration |-> SumSeq(Field(rs, "total_duration")) \div Len(rs),
     load_duration |-> SumSeq(Field(rs, "load_duration")) \div Len(rs),
     prompt_eval_count |->
         validate_prompt_eval_count(
             SumSeq(Field(rs, "prompt_eval_count")) \div Len(rs)),
     prompt_eval_duration |-> SumSeq(Field(rs, "prompt_eval_duration")) \div Len(rs),
     eval_count |-> SumSeq(Field(rs, "eval_count")) \div Len(rs),
     eval_duration |-> SumSeq(Field(rs, "eval_duration")) \div Len(rs)]

\* The record average_stats constructs; the constructor runs the validator of
\* prompt_eval_count on the sum.
AverageRecord(rs) ==
    [model |-> rs[1].model,
     message |-> [role |-> "system", content |-> RunsText(Len(rs))],
     done |-> TRUE,
     total_duration |-> SumSeq(Field(rs, "total_duration")),
     load_duration |-> SumSeq(Field(rs, "load_duration")),
     prompt_eval_count |->
         validate_prompt_eval_count(SumSeq(Field(rs, "prompt_eval_count"))),
     prompt_eval_duration |-> SumSeq(Field(rs, "prompt_eval_duration")),
     eval_count |-> SumSeq(Field(rs, "eval_count")),
     eval_duration |-> SumSeq(Field(rs, "eval_duration"))]


---------------------------------------------------------------------------
(* Console output: one <<kind, text>> pair per print call.                 *)

EvaluatingMsg == <<"info", "Evaluating models">>
BenchmarkingMsg(prompt) == <<"benchmarking", prompt>>
ChunkMsg(chunk) == <<"chunk", chunk.message.content>>
NoResponseMsg == <<"error", "System Error: No response received from ollama">>
WarningMsg == <<"warning", "prompt token count was not provided">>
ResponseMsg(r) == <<"response", r.message.content>>
ReportMsg(r) ==
    <<"report", r.model,
      [prompt_ts |-> prompt_ts(r), response_ts |-> response_ts(r),
       total_ts |-> total_ts(r)]>>
NoStatsMsg == <<"info", "No stats to average">>
AverageMsg == <<"info", "Average stats:">>

\* An inference_stats that guards its divisions and reports undefined rates.
inference_stats_Guarded(r, o) ==
    IF DivisionError(r)
      THEN [raised |-> FALSE, out |-> Append(o, <<"report", r.model, "undefined">>)]
      ELSE [raised |-> FALSE, out |-> Append(o, ReportMsg(r))]

\* inference_stats(r) on a console that shows o: the report is printed only
\* when the three divisions succeed.
inference_stats(r, o) ==
    IF DivisionError(r)
      THEN [raised |-> TRUE, out |-> o]
      ELSE [raised |-> FALSE, out |-> Append(o, ReportMsg(r))]

---------------------------------------------------------------------------
(* The state after construction: the arguments and the server's model list *)
(* are the inputs of the run.                                              *)

Init ==
    /\ verbose \in BOOLEAN
    /\ skip_models \in SUBSET SkipNames
    /\ prompts \in SeqsUpTo(PromptTexts, MaxPrompts)
    /\ installed \in SeqsUpTo(Models, MaxModels)
    /\ Len(installed) * Len(prompts) <= MaxCalls
    /\ pc = "start"
    /\ err = ""
    /\ model_names = << >>
    /\ mi = 1
    /\ pj = 1
    /\ responses = << >>
    /\ benchKeys = << >>
    /\ benchmarks = [k \in {} |-> << >>]
    /\ ai = 1
    /\ last_element = None
    /\ response = None
    /\ chunks = << >>
    /\ inflight = 0
    /\ out = << >>
    /\ res = None
    /\ requests = << >>
    /\ replies = << >>
    /\ averaged = << >>

---------------------------------------------------------------------------
(* main: model_names = get_benchmark_models(skip_models); benchmarks = {}  *)

GetBenchmarkModels ==
    /\ pc = "start"
    /\ model_names' = get_benchmark_models(installed, skip_models)
    /\ out' = << EvaluatingMsg >>
    /\ pc' = IF Len(model_names') = 0 THEN "done" ELSE "loop"
    /\ UNCHANGED << verbose, skip_models, prompts, installed, err, mi, pj,
                    responses, benchKeys, benchmarks, ai, last_element,
                    response, chunks, inflight, res, requests, replies,
                    averaged >>

---------------------------------------------------------------------------
(* main, the body of the inner loop up to the call of ollama.chat inside   *)
(* run_benchmark.                                                          *)

\* A call that hands control back before the server has answered.
AwaitReply_Detached(stream) == "loop"

\* Where main is once ollama.chat has been called: blocked in the call, or in
\* the for loop over the stream, until the server has answered.
AwaitReply(stream) == IF stream THEN "stream" ELSE "chat"

Request ==
    /\ pc = "loop"
    /\ pj <= Len(prompts)
    /\ out' = IF verbose THEN << BenchmarkingMsg(prompts[pj]) >> ELSE << >>
    /\ last_element' = None
    /\ chunks' = << >>
    /\ requests' = Append(requests, [model |-> model_names[mi],
                                     prompt |-> prompts[pj],
                                     stream |-> verbose])
    /\ inflight' = inflight + 1
    /\ pc' = AwaitReply(verbose)
    /\ UNCHANGED << verbose, skip_models, prompts, installed, err, model_names,
                    mi, pj, responses, benchKeys, benchmarks, ai, response,
                    res, replies, averaged >>

\* run_benchmark from `if not last_element` to its return, with last_element
\* = le and the console showing o.
Return(le, o) ==
    IF Falsy(le)
      THEN /\ out' = Append(o, NoResponseMsg)
           /\ response' = None
           /\ replies' = Append(replies, response')
           /\ pc' = "append"
           /\ err' = err
      ELSE /\ out' = IF Warns(RawCount(le)) THEN Append(o, WarningMsg) ELSE o
           /\ IF SchemaOK(le)
                THEN /\ response' = model_validate(le)
                     /\ replies' = Append(replies, response')
                     /\ pc' = "append"
                     /\ err' = err
                ELSE /\ pc' = "error"
                     /\ err' = "ValidationError"
                     /\ UNCHANGED << response, replies >>

\* verbose = False: the blocking call returns one payload.
ChatReply ==
    /\ pc = "chat"
    /\ \E p \in Payloads :
         /\ last_element' = From(p, model_names[mi])
         /\ Return(last_element', out)
    /\ inflight' = inflight - 1
    /\ UNCHANGED << verbose, skip_models, prompts, installed, model_names, mi,
                    pj, responses, benchKeys, benchmarks, ai, chunks, res,
                    requests, averaged >>

\* A loop that keeps the first chunk it saw instead of the latest.
RetainFirst(last, chunk) == IF last = None THEN chunk ELSE last

\* The assignment in the body of `for chunk in stream`.
Retain(last, chunk) == chunk

\* verbose = True: the stream yields one more chunk and the loop body runs.
StreamChunk ==
    /\ pc = "stream"
    /\ Len(chunks) < MaxChunks
    /\ \E c \in Chunks :
         LET chunk == From(c, model_names[mi]) IN
         /\ chunks' = Append(chunks, chunk)
         /\ IF "message" \in chunk.has
              THEN /\ out' = Append(out, ChunkMsg(chunk))
                   /\ last_element' = Retain(last_element, chunk)
                   /\ UNCHANGED << pc, err, inflight >>
              ELSE /\ pc' = "error"
                   /\ err' = "KeyError"
                   /\ inflight' = inflight - 1
                   /\ UNCHANGED << out, last_element >>
    /\ UNCHANGED << verbose, skip_models, prompts, installed, model_names, mi,
                    pj, responses, benchKeys, benchmarks, ai, response, res,
                    requests, replies, averaged >>

\* verbose = True: the stream is exhausted and run_benchmark returns.
StreamEnd ==
    /\ pc = "stream"
    /\ inflight' = inflight - 1
    /\ Return(last_element, out)
    /\ UNCHANGED << verbose, skip_models, prompts, installed, model_names, mi,
                    pj, responses, benchKeys, benchmarks, ai, last_element,
                    chunks, res, requests, averaged >>

---------------------------------------------------------------------------
(* main, the rest of the body of the inner loop: responses.append and the  *)
(* verbose report.                                                         *)

\* A loop that asks again when nothing was returned.
NextPrompt_Retry(j, r) == IF r = None THEN j ELSE j + 1

\* `for prompt in prompts` moves to the next prompt whatever was returned.
NextPrompt(j, r) == j + 1

Collect ==
    /\ pc = "append"
    /\ responses' = Append(responses, response)
    /\ IF ~verbose
         THEN /\ pc' = "loop"
              /\ pj' = NextPrompt(pj, response)
              /\ UNCHANGED << out, err >>
         ELSE IF response = None
           THEN /\ pc' = "error"
                /\ err' = "AttributeError"
                /\ UNCHANGED << out, pj >>
           ELSE LET shown == Append(out, ResponseMsg(response))
                    stats == inference_stats(response, shown) IN
                /\ out' = stats.out
                /\ IF stats.raised
                     THEN /\ pc' = "error"
                          /\ err' = "ZeroDivisionError"
                          /\ pj' = pj
                     ELSE /\ pc' = "loop"
                          /\ err' = err
                          /\ pj' = NextPrompt(pj, response)
    /\ UNCHANGED << verbose, skip_models, prompts, installed, model_names, mi,
                    benchKeys, benchmarks, ai, last_element, response, chunks,
                    inflight, res, requests, replies, averaged >>

\* An averaging loop nested in the loop over the models.
AfterModel_Early(i, n) == "avg"

\* Where main goes once model number i of n is done.
AfterModel(i, n) == IF i < n THEN "loop" ELSE "avg"

\* main: benchmarks[model_name] = responses, and the next model.
EndModel ==
    /\ pc = "loop"
    /\ pj > Len(prompts)
    /\ LET key == model_names[mi] IN
         /\ benchKeys' = IF key \in DOMAIN benchmarks
                           THEN benchKeys ELSE Append(benchKeys, key)
         /\ benchmarks' = [k \in DOMAIN benchmarks \cup {key} |->
                             IF k = key THEN responses ELSE benchmarks[k]]
    /\ pc' = AfterModel(mi, Len(model_names))
    /\ mi' = mi + 1
    /\ pj' = 1
    /\ responses' = << >>
    /\ UNCHANGED << verbose, skip_models, prompts, installed, err, model_names,
                    ai, last_element, response, chunks, inflight, out, res,
                    requests, replies, averaged >>

---------------------------------------------------------------------------
(* main: for model_name, responses in benchmarks.items():                  *)
(*           average_stats(responses)                                      *)

\* No early return.
NothingToAverage_Never(rs) == FALSE

\* average_stats returns early on an empty list.
NothingToAverage(rs) == Len(rs) = 0

AverageStats ==
    /\ pc = "avg"
    /\ ai <= Len(benchKeys)
    /\ LET rs == benchmarks[benchKeys[ai]] IN
         /\ averaged' = Append(averaged, rs)
         /\ IF NothingToAverage(rs)
              THEN /\ out' = << NoStatsMsg >>
                   /\ res' = None
                   /\ pc' = IF ai < Len(benchKeys) THEN "avg" ELSE "done"
                   /\ err' = err
              ELSE IF Len(rs) = 0 \/ \E i \in 1..Len(rs) : rs[i] = None
                THEN /\ out' = << >>
                     /\ res' = None
                     /\ pc' = "error"
                     /\ err' = IF Len(rs) = 0 THEN "IndexError" ELSE "AttributeError"
                ELSE LET sum == SumSeq(Field(rs, "prompt_eval_count"))
                         shown == (IF Warns(sum) THEN << WarningMsg >> ELSE << >>)
                                    \o << AverageMsg >>
                         stats == inference_stats(AverageRecord(rs), shown) IN
                     /\ res' = AverageRecord(rs)
                     /\ out' = stats.out
                     /\ IF stats.raised
                          THEN pc' = "error" /\ err' = "ZeroDivisionError"
                          ELSE /\ pc' = IF ai < Len(benchKeys) THEN "avg" ELSE "done"
                               /\ err' = err
    /\ ai' = ai + 1
    /\ UNCHANGED << verbose, skip_models, prompts, installed, model_names, mi,
                    pj, responses, benchKeys, benchmarks, last_element,
                    response, chunks, inflight, requests, replies >>

---------------------------------------------------------------------------

\* An except clause around the body of the inner loop: the failed call is
\* dropped and the loop goes on with the next prompt.
Recover ==
    /\ pc = "error"
    /\ averaged = << >>
    /\ pc' = "loop"
    /\ pj' = pj + 1
    /\ UNCHANGED << verbose, skip_models, prompts, installed, err, model_names,
                    mi, responses, benchKeys, benchmarks, ai, last_element,
                    response, chunks, inflight, out, res, requests, replies,
                    averaged >>

\* A main that catches the exceptions of a call.
Next_Recovering ==
    \/ GetBenchmarkModels
    \/ Request
    \/ ChatReply
    \/ StreamChunk
    \/ StreamEnd
    \/ Collect
    \/ EndModel
    \/ AverageStats
    \/ Recover

\* main has no try: every step starts from a position an exception has not
\* ended.
Next ==
    \/ GetBenchmarkModels
    \/ Request
    \/ ChatReply
    \/ StreamChunk
    \/ StreamEnd
    \/ Collect
    \/ EndModel
    \/ AverageStats

Spec == Init /\ [][Next]_vars

---------------------------------------------------------------------------
(* Properties.                                                             *)

\* The lists of responses main holds: the one being filled and the dict's.
HeldLists == {responses} \cup {benchmarks[k] : k \in DOMAIN benchmarks}

\* The console lines of one kind, in order.
Printed(kind) == SelectSeq(out, LAMBDA line : line[1] = kind)

\* C1: a call for which the server returned no data adds nothing to the
\* model's sequence, so every entry of every sequence main holds, and of
\* every sequence handed to average_stats, is a validated record.
C1_OnlyRecordsHeld ==
    /\ \A rs \in HeldLists : \A j \in 1..Len(rs) : rs[j] # None
    /\ \A i \in 1..Len(averaged) :
         \A j \in 1..Len(averaged[i]) : averaged[i][j] # None

\* C2: after run_benchmark has returned "no response" for a prompt, main's
\* next step takes it back to the head of the inner loop (from where the next
\* prompt, or the next model, is requested), verbose or not.
C2_ContinuesAfterEmpty ==
    [][(pc = "append" /\ response = None) => pc' = "loop"]_vars

\* C3: with verbose = true, while the stream is read and when run_benchmark
\* has returned, the chunk texts printed are those of the chunks the stream
\* yielded, each once and in order, and the record returned is the validation
\* of the last chunk alone (no record when the stream had no chunk).
C3_StreamKeepsLast ==
    (verbose /\ pc \in {"stream", "append"}) =>
        /\ Printed("chunk") = [i \in 1..Len(chunks) |-> ChunkMsg(chunks[i])]
        /\ pc = "append" =>
             IF chunks = << >>
               THEN response = None
               ELSE /\ response # None
                    /\ response.message = Last(chunks).message
                    /\ response.done = Last(chunks).done
                    /\ response.total_duration = Last(chunks).total_duration
                    /\ response.prompt_eval_duration = Last(chunks).prompt_eval_duration
                    /\ response.eval_count = Last(chunks).eval_count
                    /\ response.eval_duration = Last(chunks).eval_duration

\* C3 witness: a two-chunk stream whose chunks carry different metadata has
\* been read to its end and a record was returned.
C3_Witness ==
    /\ verbose /\ pc = "append" /\ Len(chunks) = 2 /\ response # None
    /\ chunks[1].total_duration # chunks[2].total_duration
    /\ SchemaOK(chunks[1])

---------------------------------------------------------------------------
(* average_stats and validation.                                           *)

\* The latest average_stats call was given a non-empty list of records.
AveragedRecords ==
    /\ averaged # << >>
    /\ Last(averaged) # << >>
    /\ \A j \in 1..Len(Last(averaged)) : Last(averaged)[j] # None

\* The sum of one field over a list of records.
Total(rs, f) == SumSeq([i \in 1..Len(rs) |-> rs[i][f]])

\* The fields of the synthetic record other than prompt_eval_count.
SumsOf(rs, r) ==
    /\ r # None
    /\ r.done = TRUE
    /\ r.message.content = "Average stats across " \o ToString(Len(rs)) \o " runs"
    /\ r.total_duration = Total(rs, "total_duration")
    /\ r.load_duration = Total(rs, "load_duration")
    /\ r.prompt_eval_duration = Total(rs, "prompt_eval_duration")
    /\ r.eval_count = Total(rs, "eval_count")
    /\ r.eval_duration = Total(rs, "eval_duration")

\* C4 as stated: for every non-empty list of validated records, the synthetic
\* record has done = true, a message naming the number of records, and every
\* numeric field, prompt_eval_count included, equal to the sum of that field.
C4_AllFieldsSummed ==
    AveragedRecords =>
        /\ SumsOf(Last(averaged), res)
        /\ res.prompt_eval_count = Total(Last(averaged), "prompt_eval_count")

\* C4 amended: as above, except that prompt_eval_count is 0 when the sum of
\* the records' prompt_eval_count is the sentinel -1, and the sum otherwise.
C4_SummedUpToSentinel ==
    AveragedRecords =>
        /\ SumsOf(Last(averaged), res)
        /\ res.prompt_eval_count =
             IF Total(Last(averaged), "prompt_eval_count") = MissingCount
               THEN 0
               ELSE Total(Last(averaged), "prompt_eval_count")

\* C4 witness: two different records were averaged.
C4_Witness ==
    /\ AveragedRecords
    /\ Len(Last(averaged)) = 2
    /\ Last(averaged)[1] # Last(averaged)[2]
    /\ res # None
    /\ res.eval_count = 3

\* run_benchmark has just returned a record validated from last_element.
Validated == pc = "append" /\ response # None

Warnings == Len(Printed("warning"))

\* C5 as stated: whenever the payload holds prompt_eval_count, the record's
\* field is the payload's value and no warning is printed; when the payload
\* does not hold it, the field is 0 and exactly one warning is printed.
C5_PresentCountKept ==
    Validated =>
        IF "prompt_eval_count" \in last_element.has
          THEN /\ response.prompt_eval_count = last_element.prompt_eval_count
               /\ Warnings = 0
          ELSE /\ response.prompt_eval_count = 0
               /\ Warnings = 1

\* C5 amended: whenever the payload holds a prompt_eval_count other than -1,
\* the record's field is the payload's value and no warning is printed; when
\* the payload does not hold it, or holds -1, the field is 0 and exactly one
\* warning is printed.
C5_CountKeptUnlessSentinel ==
    Validated =>
        IF /\ "prompt_eval_count" \in last_element.has
           /\ last_element.prompt_eval_count # MissingCount
          THEN /\ response.prompt_eval_count = last_element.prompt_eval_count
               /\ Warnings = 0
          ELSE /\ response.prompt_eval_count = 0
               /\ Warnings = 1

\* C5 witness: a payload without prompt_eval_count has been validated.
C5_Witness ==
    /\ Validated
    /\ "prompt_eval_count" \notin last_element.has
    /\ response.prompt_eval_count = 0

\* The invariant of section 3 of the specification, for one record.
WellFormed(r) ==
    /\ r.total_duration >= 0
    /\ r.load_duration >= 0
    /\ r.prompt_eval_duration >= 0
    /\ r.eval_duration >= 0
    /\ r.eval_count >= 0
    /\ r.prompt_eval_count >= 0
    /\ r.message.role # ""
    /\ r.message.content # ""

---------------------------------------------------------------------------
(* The order of the calls.                                                 *)

\* The (model, prompt) pairs in the order of the two nested loops.
Expected ==
    [k \in 1..(Len(model_names) * Len(prompts)) |->
       [model |-> model_names[((k - 1) \div Len(prompts)) + 1],
        prompt |-> prompts[((k - 1) % Len(prompts)) + 1]]]

Pair(req) == [model |-> req.model, prompt |-> req.prompt]

\* C6: the requests issued so far are, in order, the first pairs of the list
\* "every model of get_benchmark_models in order, and for each every prompt
\* occurrence in order": one request per pair, none repeated whatever was
\* returned; and once the loops are over every pair has been requested.
C6_OneRequestPerPair ==
    /\ Len(requests) <= Len(Expected)
    /\ \A k \in 1..Len(requests) : Pair(requests[k]) = Expected[k]
    /\ pc \in {"avg", "done"} => Len(requests) = Len(Expected)

\* C6 witness: the loops are over after four requests, with a prompt given
\* twice and a call that returned nothing.
C6_Witness ==
    /\ pc = "avg"
    /\ Len(requests) = 4
    /\ Len(prompts) = 2 /\ prompts[1] = prompts[2]
    /\ \E k \in 1..Len(replies) : replies[k] = None

\* The names of a list without repetition, in the order of first occurrence.
RECURSIVE Distinct(_)
Distinct(s) ==
    IF s = << >> THEN << >>
    ELSE LET front == Distinct(SubSeq(s, 1, Len(s) - 1)) IN
         IF \E i \in 1..Len(front) : front[i] = Last(s)
           THEN front ELSE Append(front, Last(s))

\* The last position of a name in model_names.
LastRun(name) ==
    CHOOSE k \in 1..Len(model_names) :
        /\ model_names[k] = name
        /\ \A l \in (k + 1)..Len(model_names) : model_names[l] # name

\* What run_benchmark returned for the prompts of the model at position k.
RecordsOfRun(k) ==
    SubSeq(replies, (k - 1) * Len(prompts) + 1, k * Len(prompts))

---------------------------------------------------------------------------
(* get_benchmark_models.                                                   *)

\* kept is what is left of names once the positions holding a name of skip
\* are removed: same order, same multiplicity.
IsFiltered(kept, names, skip) ==
    LET keep == {i \in 1..Len(names) : names[i] \notin skip} IN
    /\ Len(kept) = Cardinality(keep)
    /\ \E f \in [1..Len(kept) -> keep] :
         /\ \A i, j \in 1..Len(kept) : i < j => f[i] < f[j]
         /\ \A i \in 1..Len(kept) : kept[i] = names[f[i]]

\* C8: get_benchmark_models returns the installed names with exactly the
\* names of the skip-list removed, the others in their original order and
\* multiplicity; with an empty skip-list it returns the installed list.
C8_SkipListRemoved ==
    pc # "start" =>
        /\ IsFiltered(model_names, installed, skip_models)
        /\ skip_models = {} => model_names = installed

\* C8 witness: a skip-list has removed one of two installed names.
C8_Witness ==
    /\ pc # "start"
    /\ Len(installed) = 2
    /\ Len(model_names) = 1
    /\ installed[1] \in skip_models
    /\ model_names[1] = installed[2]

---------------------------------------------------------------------------
(* The empty average.                                                      *)

\* C9: average_stats on an empty list builds no record, prints the line "No
\* stats to average" and no report, and raises nothing; main goes on to the
\* next model's average, or ends when there is none.  An empty prompt list
\* makes every model's list empty.
C9_EmptyAverage ==
    /\ (averaged # << >> /\ Last(averaged) = << >>) =>
         /\ res = None
         /\ out = << NoStatsMsg >>
         /\ err = ""
         /\ pc = IF Len(averaged) < Len(benchKeys) THEN "avg" ELSE "done"
         /\ ai = Len(averaged) + 1
    /\ prompts = << >> => \A i \in 1..Len(averaged) : averaged[i] = << >>

\* C9 witness: with no prompt, two models were averaged and the run ended.
C9_Witness ==
    /\ prompts = << >>
    /\ pc = "done"
    /\ Len(averaged) = 2
    /\ out = << NoStatsMsg >>

---------------------------------------------------------------------------
(* One call at a time.                                                     *)

\* C11: at most one ollama.chat call is in flight; a call is in flight
\* exactly while main is blocked in it or reads its stream; and every request
\* but the latest has returned, which a streaming call does only when its
\* stream is exhausted, so that a request is issued only after the previous
\* call is over.  While a stream is read its request is the latest one.
C11_OneCallInFlight ==
    /\ inflight \in {0, 1}
    /\ inflight = 1 <=> pc \in {"chat", "stream"}
    /\ Len(replies) <= Len(requests)
    /\ Len(requests) <= Len(replies) + 1
    /\ pc \in {"chat", "stream"} => Len(requests) = Len(replies) + 1
    /\ pc \in {"loop", "append", "avg", "done"} => Len(requests) = Len(replies)
    /\ pc = "stream" => Last(requests).stream /\ Len(chunks) <= MaxChunks

\* C11 witness: the second streaming call is being read, after the first
\* one's stream of two chunks was read to its end.
C11_Witness ==
    /\ verbose
    /\ pc = "stream"
    /\ Len(requests) = 2
    /\ Len(replies) = 1
    /\ Len(chunks) = 1
    /\ inflight = 1

---------------------------------------------------------------------------
(* The rates of inference_stats.                                           *)

\* The record of the report on the console: the one main collected last
\* while the loops run, the synthetic one in the averaging loop.
Reported == IF averaged = << >> THEN response ELSE res

\* rate is count * 10^9 / duration (both sides freed of the common divisor
\* of duration and 10^9).
RateIs(rate, count, duration) ==
    LET g == Gcd(duration, NsPerSec) IN
    rate.num * (duration \div g) = rate.den * count * (NsPerSec \div g)

\* The record of the scenario of section 8 of the specification.
Scenario ==
    [model |-> "m1", message |-> [role |-> "assistant", content |-> "a"],
     done |-> TRUE, total_duration |-> 2000000000, load_duration |-> 0,
     prompt_eval_count |-> 50, prompt_eval_duration |-> 1000000000,
     eval_count |-> 100, eval_duration |-> 1000000000]

\* C12: whenever inference_stats has printed its report for a record with
\* positive prompt_eval_duration and eval_duration, the prompt rate is
\* prompt_eval_count * 10^9 / prompt_eval_duration, the response rate is
\* eval_count * 10^9 / eval_duration, and the combined rate is the summed
\* counts * 10^9 over the summed durations; the scenario's record gives 50,
\* 100 and 75 tokens per second.
C12_RatesFromCountsAndDurations ==
    /\ Printed("report") # << >> =>
         LET r == Reported
             rates == Printed("report")[1][3]
         IN  (r.prompt_eval_duration > 0 /\ r.eval_duration > 0) =>
               /\ RateIs(rates.prompt_ts, r.prompt_eval_count,
                         r.prompt_eval_duration)
               /\ RateIs(rates.response_ts, r.eval_count, r.eval_duration)
               /\ RateIs(rates.total_ts,
                         r.prompt_eval_count + r.eval_count,
                         r.prompt_eval_duration + r.eval_duration)
    /\ ReportMsg(Scenario)[3] =
         [prompt_ts |-> [num |-> 50, den |-> 1],
          response_ts |-> [num |-> 100, den |-> 1],
          total_ts |-> [num |-> 75, den |-> 1]]

\* C12 witness: the report of an average over two records is on the console,
\* and its combined rate is neither of the two other rates.
C12_Witness ==
    /\ averaged # << >>
    /\ Len(Last(averaged)) = 2
    /\ Printed("report") # << >>
    /\ Printed("report")[1][3].total_ts # Printed("report")[1][3].prompt_ts
    /\ Printed("report")[1][3].total_ts # Printed("report")[1][3].response_ts

---------------------------------------------------------------------------
(* Zero durations.                                                         *)

ZeroDuration(r) == r.prompt_eval_duration = 0 \/ r.eval_duration = 0

\* The run has ended in a division error and no report is on the console.
DivisionFault ==
    /\ pc = "error"
    /\ err = "ZeroDivisionError"
    /\ Printed("report") = << >>

\* C13: inference_stats has no zero guard: once it was called for a record
\* whose prompt_eval_duration or eval_duration is 0 (the record just
\* collected when verbose, or the synthetic record of an average), the run
\* has ended in a division error and no report was printed, whatever the
\* other duration and the counts are.
C13_ZeroDurationRaises ==
    /\ (verbose /\ responses # << >> /\ Last(responses) # None
          /\ ZeroDuration(Last(responses))) => DivisionFault
    /\ (res # None /\ ZeroDuration(res)) => DivisionFault

\* C13 witness: the average of a model's records has a prompt_eval_duration
\* of 0 with a prompt_eval_count of 0 and a positive eval_duration, and the
\* run has ended in the division error.
C13_Witness ==
    /\ res # None
    /\ res.prompt_eval_duration = 0
    /\ res.prompt_eval_count = 0
    /\ res.eval_duration > 0
    /\ DivisionFault

---------------------------------------------------------------------------
(* Uncaught errors.                                                        *)

\* A call has ended in an error: its payload failed validation, or the
\* verbose report of its record divided by zero.
CallFailed ==
    \/ err = "ValidationError"
    \/ err = "ZeroDivisionError" /\ Printed("response") # << >>

\* C14: an exception is caught nowhere: once one was raised the run is over
\* and no step follows, so no later request is issued; and when it was raised
\* by a call (validation of the payload, or the division of a verbose
\* per-call report), average_stats has been invoked for no model and no
\* synthetic record or averaged report exists, whatever the models done
\* before had collected.
C14_ErrorEndsRun ==
    /\ err # "" => (pc = "error" /\ ~ENABLED Next)
    /\ pc = "error" => err # ""
    /\ CallFailed =>
         /\ averaged = << >>
         /\ res = None
         /\ AverageMsg \notin {out[i] : i \in 1..Len(out)}
         /\ Len(requests) = Len(replies) + (IF err = "ValidationError" THEN 1 ELSE 0)

\* C14 witness: the second model's call fails validation after the first
\* model's two prompts were answered with records that average_stats would
\* have reported.
C14_Witness ==
    /\ err = "ValidationError"
    /\ pc = "error"
    /\ Len(benchKeys) = 1
    /\ Len(benchmarks[benchKeys[1]]) = 2
    /\ \A j \in 1..2 :
         /\ benchmarks[benchKeys[1]][j] # None
         /\ ~ZeroDuration(benchmarks[benchKeys[1]][j])
    /\ Len(requests) = 3

===========================================================================
